---- MODULE Spec2Model ----
(***************************************************************************)
(* be-music-cabinet: src-tauri/src/bms_scan.rs.                            *)
(*                                                                         *)
(* scan_directory_recursive spawns a background task that runs one         *)
(* worker_thread over a queue of pending directories and publishes         *)
(* FileInfo records into a ScanHandle {queue, notify, is_completed}.       *)
(* The consumer of the handle is the loop of the module documentation.     *)
(*                                                                         *)
(*   Spec, FairSpec          the scan alone                                *)
(*   SpecOne, FairOne        the scan and the documented consumer          *)
(*   SpecShared, FairShared  a handle shared by one or two consumers       *)
(***************************************************************************)
EXTENDS Integers, Sequences, FiniteSets, TLC

(***************************************************************************)
(* Bounds of the explored file systems.                                    *)
(***************************************************************************)
\* at most this many entries exist below the root
MaxEntries == 3
\* at most this many operations of the file system fail
MaxFaults == 2

(***************************************************************************)
(* Paths are sequences of components; the scan root has one component.     *)
(***************************************************************************)
Root == <<0>>

\* the paths that may exist below the root
Universe == { <<0, 1>>, <<0, 2>>, <<0, 1, 1>>, <<0, 2, 1>> }

Nodes == {Root} \cup Universe

\* Path::starts_with / the test inside Path::strip_prefix
IsPrefix(base, path) ==
    /\ Len(base) <= Len(path)
    /\ SubSeq(path, 1, Len(base)) = base

Parent(n) == SubSeq(n, 1, Len(n) - 1)

Children(n) == { m \in Universe : Len(m) = Len(n) + 1 /\ IsPrefix(n, m) }

\* Path::join of a relative path
Join(base, rel) == base \o rel

\* faulty variant: a path outside base is returned whole
strip_prefix_or_whole(path, base) ==
    IF IsPrefix(base, path)
    THEN [ok |-> TRUE, rel |-> SubSeq(path, Len(base) + 1, Len(path))]
    ELSE [ok |-> TRUE, rel |-> path]

\* Path::strip_prefix: Ok(rest) or Err
strip_prefix(path, base) ==
    IF IsPrefix(base, path)
    THEN [ok |-> TRUE, rel |-> SubSeq(path, Len(base) + 1, Len(path))]
    ELSE [ok |-> FALSE, rel |-> <<>>]

(***************************************************************************)
(* Extensions are sequences of characters.                                 *)
(***************************************************************************)
TARGET_EXTS ==
    { <<"b", "m", "s">>, <<"b", "m", "e">>, <<"b", "m", "l">>,
      <<"p", "m", "s">>, <<"b", "m", "s", "o", "n">> }

\* u8::to_ascii_lowercase on the characters that occur
LowerChar(c) ==
    CASE c = "B" -> "b"
      [] c = "M" -> "m"
      [] c = "S" -> "s"
      [] c = "E" -> "e"
      [] c = "L" -> "l"
      [] c = "P" -> "p"
      [] c = "O" -> "o"
      [] c = "N" -> "n"
      [] c = "T" -> "t"
      [] c = "X" -> "x"
      [] OTHER -> c

to_ascii_lowercase(s) == [i \in 1..Len(s) |-> LowerChar(s[i])]

\* no extension
NoExt == <<>>

\* faulty variant: the extension is compared as written
IsTargetExtCaseSensitive(e) ==
    /\ e # NoExt
    /\ e \in TARGET_EXTS

\* the test of process_directory on a non-directory entry
IsTargetExt(e) ==
    /\ e # NoExt
    /\ to_ascii_lowercase(e) \in TARGET_EXTS

\* the extensions of the files of the explored file systems
FileExts == { <<"B", "m", "s">>, <<"t", "x", "t">> }

(***************************************************************************)
(* StorageType and the size of the semaphore.                              *)
(***************************************************************************)
StorageTypes == { <<"SSD">>, <<"HDD">>, <<"Unknown", 0>>, <<"Failed">> }

\* faulty variant: the permits of SSD for every storage type but Failed
SemaphorePermitsWide(st) ==
    CASE st[1] \in {"SSD", "HDD", "Unknown"} -> 16
      [] st[1] = "Failed" -> 1

SemaphorePermits(st) ==
    CASE st[1] = "SSD" -> 16
      [] st[1] \in {"HDD", "Unknown"} -> 1
      [] st[1] = "Failed" -> 1

\* the bytes fs::read returns for a path, and their digest
Bytes(path) == <<Len(path), path[Len(path)]>>

Sha256(content) == <<"sha256", content>>

(***************************************************************************)
(* The file system under the root: for every path whether it is absent, a  *)
(* directory or a file, the file's extension, and which operation on it    *)
(* fails:                                                                  *)
(*   list  fs::read_dir fails                                              *)
(*   next  next_entry fails after some entries                             *)
(*   type  DirEntry::file_type fails                                       *)
(*   read  fs::read fails                                                  *)
(*   hash  the spawn_blocking task of the digest fails                     *)
(***************************************************************************)
Absent == [kind |-> "absent", ext |-> NoExt, fault |-> "none"]

DirConfigs == [kind : {"dir"}, ext : {NoExt}, fault : {"none", "list", "next", "type"}]

FileConfigs ==
    { c \in [kind : {"file"}, ext : FileExts, fault : {"none", "type", "read", "hash"}] :
        c.fault \in {"read", "hash"} => IsTargetExt(c.ext) }

RootConfigs ==
    {Absent} \cup { c \in DirConfigs : c.fault # "type" }

EntryConfigs == {Absent} \cup DirConfigs \cup FileConfigs

WellFormed(f) ==
    /\ f[Root] \in RootConfigs
    /\ \A n \in Universe : f[n].kind # "absent" => f[Parent(n)].kind = "dir"
    /\ Cardinality({ n \in Universe : f[n].kind # "absent" }) <= MaxEntries
    /\ Cardinality({ n \in Nodes : f[n].fault # "none" }) <= MaxFaults

FileSystems == { f \in [Nodes -> EntryConfigs] : WellFormed(f) }

VARIABLES
    fs,            \* the file system (never changes during a scan)
    storage_type,  \* argument of scan_directory_recursive
    call,          \* the function under study and its arguments
    ret,           \* <<>> until a function studied on its own returned, then <<value>>
    result,        \* what scan_directory_recursive returned: "none" before the call
    queue,         \* ScanHandle.queue
    notify,        \* ScanHandle.notify: [permit, waiters, notified]
    is_completed,  \* ScanHandle.is_completed
    tPc,           \* position of the spawned background task
    dir_queue,     \* pending directories
    semaphore,     \* available permits
    wPc,           \* position of worker_thread
    dir,           \* directory being processed
    entries,       \* entries of the listing not yet returned by next_entry
    found_files,   \* process_directory: found_files, then the files left to process
    subdirs,       \* process_directory: subdirs
    file_path,     \* file being processed
    cPc,           \* position of every consumer
    mode,          \* how a consumer waits: "select" (flag polled too) or "await"
    popped,        \* records every consumer popped
    pushed,        \* history: records pushed to the result queue, in order
    stores,        \* history: number of stores of true to is_completed
    listed,        \* history: directories whose read_dir returned, in order
    errors,        \* history: the operations that failed, as <<operation, path>>
    signals        \* history: number of notify_one calls

envVars == <<fs, storage_type, call, ret>>
handleVars == <<queue, notify, is_completed>>
workerVars == <<dir_queue, semaphore, wPc, dir, entries, found_files, subdirs, file_path>>
consumerVars == <<cPc, mode, popped>>
histVars == <<pushed, stores, listed, errors, signals>>
vars == <<envVars, result, handleVars, tPc, workerVars, consumerVars, histVars>>

NoPath == <<>>

\* the call every scan starts with
ScanCall == [fn |-> "scan_directory_recursive"]

FileInfo(path, rel) ==
    [absolute_path |-> path, relative_path |-> rel,
     content |-> Bytes(path), sha256 |-> Sha256(Bytes(path))]

(***************************************************************************)
(* tokio::sync::Notify as the handle uses it: notify_one wakes the waiter  *)
(* that has waited longest, or stores one permit when nobody waits.        *)
(***************************************************************************)
NewNotify == [permit |-> FALSE, waiters |-> <<>>, notified |-> {}]

notify_one(nt) ==
    IF nt.waiters # <<>>
    THEN [nt EXCEPT !.waiters = Tail(@), !.notified = @ \cup {Head(nt.waiters)}]
    ELSE [nt EXCEPT !.permit = TRUE]

Remove(s, c) == SelectSeq(s, LAMBDA x : x # c)

\* drop of a Notified future that did not complete: a notification it
\* received through notify_one is passed on
DropNotified(nt, c) ==
    IF c \in nt.notified
    THEN notify_one([nt EXCEPT !.notified = @ \ {c}])
    ELSE [nt EXCEPT !.waiters = Remove(@, c)]

(***************************************************************************)
(* Initial states: before the call of scan_directory_recursive.            *)
(***************************************************************************)
InitWith(cs, modes) ==
    /\ fs \in FileSystems
    /\ storage_type \in StorageTypes
    /\ call = ScanCall
    /\ ret = <<>>
    /\ result = "none"
    /\ queue = <<>>
    /\ notify = NewNotify
    /\ is_completed = FALSE
    /\ tPc = "unspawned"
    /\ dir_queue = <<>>
    /\ semaphore = 0
    /\ wPc = "unspawned"
    /\ dir = NoPath
    /\ entries = {}
    /\ found_files = <<>>
    /\ subdirs = <<>>
    /\ file_path = NoPath
    /\ cPc = [c \in cs |-> "start"]
    /\ mode \in [cs -> modes]
    /\ popped = [c \in cs |-> <<>>]
    /\ pushed = <<>>
    /\ stores = 0
    /\ listed = <<>>
    /\ errors = {}
    /\ signals = 0

(***************************************************************************)
(* scan_directory_recursive: creates the handle, spawns the background     *)
(* task and returns the handle.                                            *)
(***************************************************************************)
\* faulty variant: a missing root is reported as an error
StartChecksRoot(rootConfig) == IF rootConfig.kind = "absent" THEN "Err" ELSE "Ok"

StartResult(rootConfig) == "Ok"

scan_directory_recursive ==
    /\ result = "none"
    /\ queue' = <<>>
    /\ notify' = NewNotify
    /\ is_completed' = FALSE
    /\ tPc' = "spawned"
    /\ result' = StartResult(fs[Root])
    /\ UNCHANGED <<envVars, workerVars, consumerVars, histVars>>

\* the spawned task: seeds dir_queue, creates the semaphore, spawns the worker
task_start ==
    /\ tPc = "spawned"
    /\ dir_queue' = <<Root>>
    /\ semaphore' = SemaphorePermits(storage_type)
    /\ wPc' = "pop"
    /\ tPc' = "join"
    /\ UNCHANGED <<envVars, result, handleVars, dir, entries, found_files, subdirs,
                   file_path, consumerVars, histVars>>

\* faulty variant: the task does not wait for the worker
WorkerNotAwaited == wPc # "panicked"

\* handle.await of the worker has a result
WorkerJoined == wPc \in {"returned", "panicked"}

\* for handle in handles { handle.await.expect(..) }
task_join ==
    /\ tPc = "join"
    /\ WorkerJoined
    /\ tPc' = IF wPc = "panicked" THEN "panicked" ELSE "store"
    /\ UNCHANGED <<envVars, result, handleVars, workerVars, consumerVars, histVars>>

\* faulty variant: the store is repeated
store_completed_again ==
    /\ tPc = "store"
    /\ is_completed' = TRUE
    /\ stores' = stores + 1
    /\ tPc' = IF stores = 0 THEN "store" ELSE "final_notify"
    /\ UNCHANGED <<envVars, result, queue, notify, workerVars, consumerVars, pushed, listed,
                   errors, signals>>

\* is_completed_clone.store(true, SeqCst)
store_completed ==
    /\ tPc = "store"
    /\ is_completed' = TRUE
    /\ stores' = stores + 1
    /\ tPc' = "final_notify"
    /\ UNCHANGED <<envVars, result, queue, notify, workerVars, consumerVars, pushed, listed,
                   errors, signals>>

\* faulty variant: the final notification is left out
final_notify_skipped ==
    /\ tPc = "final_notify"
    /\ tPc' = "done"
    /\ UNCHANGED <<envVars, result, handleVars, workerVars, consumerVars, histVars>>

\* notify_clone.notify_one()
final_notify ==
    /\ tPc = "final_notify"
    /\ notify' = notify_one(notify)
    /\ signals' = signals + 1
    /\ tPc' = "done"
    /\ UNCHANGED <<envVars, result, queue, is_completed, workerVars, consumerVars,
                   pushed, stores, listed, errors>>

(***************************************************************************)
(* worker_thread                                                           *)
(***************************************************************************)
\* faulty variant: the directory stays on the queue
worker_pop_peek ==
    /\ wPc = "pop"
    /\ IF dir_queue = <<>>
       THEN /\ wPc' = "returned"
            /\ UNCHANGED <<dir_queue, dir>>
       ELSE /\ dir' = Head(dir_queue)
            /\ dir_queue' = dir_queue
            /\ wPc' = "acquire_dir"
    /\ UNCHANGED <<envVars, result, handleVars, tPc, semaphore, entries, found_files,
                   subdirs, file_path, consumerVars, histVars>>

\* while let Some(dir) = dir_queue.pop()
worker_pop ==
    /\ wPc = "pop"
    /\ IF dir_queue = <<>>
       THEN /\ wPc' = "returned"
            /\ UNCHANGED <<dir_queue, dir>>
       ELSE /\ dir' = Head(dir_queue)
            /\ dir_queue' = Tail(dir_queue)
            /\ wPc' = "acquire_dir"
    /\ UNCHANGED <<envVars, result, handleVars, tPc, semaphore, entries, found_files,
                   subdirs, file_path, consumerVars, histVars>>

\* process_directory: semaphore.acquire()
dir_acquire ==
    /\ wPc = "acquire_dir"
    /\ semaphore > 0
    /\ semaphore' = semaphore - 1
    /\ found_files' = <<>>
    /\ subdirs' = <<>>
    /\ wPc' = "read_dir"
    /\ UNCHANGED <<envVars, result, handleVars, tPc, dir_queue, dir, entries, file_path,
                   consumerVars, histVars>>

\* fs::read_dir(dir) fails
ReadDirFails(d) == fs[d].kind # "dir" \/ fs[d].fault = "list"

\* the entries a listing of d yields
Listing(d) == { m \in Children(d) : fs[m].kind # "absent" }

\* process_directory: read_dir returns, the permit is dropped
dir_read ==
    /\ wPc = "read_dir"
    /\ semaphore' = semaphore + 1
    /\ listed' = Append(listed, dir)
    /\ IF ReadDirFails(dir)
       THEN /\ entries' = {}
            /\ errors' = errors \cup {<<"list", dir>>}
            /\ wPc' = "files"
       ELSE /\ entries' = Listing(dir)
            /\ errors' = errors
            /\ wPc' = "entries"
    /\ UNCHANGED <<envVars, result, handleVars, tPc, dir_queue, dir, found_files, subdirs,
                   file_path, consumerVars, pushed, stores, signals>>

\* process_directory: one turn of while let Ok(Some(entry)) = next_entry()
dir_next_entry ==
    /\ wPc = "entries"
    /\ \/ /\ entries = {}
          /\ wPc' = "files"
          /\ UNCHANGED <<entries, found_files, subdirs, errors>>
       \/ \E e \in entries :
            /\ entries' = entries \ {e}
            /\ IF fs[e].fault = "type"
               THEN /\ wPc' = "panicked"
                    /\ errors' = errors \cup {<<"type", e>>}
                    /\ UNCHANGED <<found_files, subdirs>>
               ELSE /\ wPc' = "entries"
                    /\ errors' = errors
                    /\ IF fs[e].kind = "dir"
                       THEN /\ subdirs' = Append(subdirs, e)
                            /\ UNCHANGED found_files
                       ELSE /\ found_files' =
                                 IF IsTargetExt(fs[e].ext)
                                 THEN Append(found_files, e)
                                 ELSE found_files
                            /\ UNCHANGED subdirs
    /\ UNCHANGED <<envVars, result, handleVars, tPc, dir_queue, semaphore, dir, file_path,
                   consumerVars, pushed, stores, listed, signals>>

\* process_directory: next_entry returns Err, the loop ends
dir_next_entry_err ==
    /\ wPc = "entries"
    /\ fs[dir].fault = "next"
    /\ entries # {}
    /\ entries' = {}
    /\ errors' = errors \cup {<<"next", dir>>}
    /\ wPc' = "files"
    /\ UNCHANGED <<envVars, result, handleVars, tPc, dir_queue, semaphore, dir, found_files,
                   subdirs, file_path, consumerVars, pushed, stores, listed, signals>>

\* for file_path in files: process_file starts with strip_prefix;
\* after the last file the subdirectories are pushed to dir_queue
worker_next_file ==
    /\ wPc = "files"
    /\ IF found_files = <<>>
       THEN /\ dir_queue' = dir_queue \o subdirs
            /\ subdirs' = <<>>
            /\ wPc' = "pop"
            /\ UNCHANGED <<found_files, file_path, errors>>
       ELSE /\ file_path' = Head(found_files)
            /\ found_files' = Tail(found_files)
            /\ IF strip_prefix(Head(found_files), Root).ok
               THEN wPc' = "acquire_file" /\ errors' = errors
               ELSE wPc' = "files" /\ errors' = errors \cup {<<"prefix", Head(found_files)>>}
            /\ UNCHANGED <<dir_queue, subdirs>>
    /\ UNCHANGED <<envVars, result, handleVars, tPc, semaphore, dir, entries,
                   consumerVars, pushed, stores, listed, signals>>

\* process_file: semaphore.acquire()
file_acquire ==
    /\ wPc = "acquire_file"
    /\ semaphore > 0
    /\ semaphore' = semaphore - 1
    /\ wPc' = "read"
    /\ UNCHANGED <<envVars, result, handleVars, tPc, dir_queue, dir, entries, found_files,
                   subdirs, file_path, consumerVars, histVars>>

\* faulty variant: the permit is given back only when the read succeeded
file_read_keeps_permit ==
    /\ wPc = "read"
    /\ IF fs[file_path].fault = "read"
       THEN wPc' = "files" /\ errors' = errors \cup {<<"read", file_path>>}
                           /\ semaphore' = semaphore
       ELSE wPc' = "hash" /\ errors' = errors /\ semaphore' = semaphore + 1
    /\ UNCHANGED <<envVars, result, handleVars, tPc, dir_queue, dir, entries, found_files,
                   subdirs, file_path, consumerVars, pushed, stores, listed, signals>>

\* process_file: fs::read returns; the permit is dropped on both paths
file_read ==
    /\ wPc = "read"
    /\ semaphore' = semaphore + 1
    /\ IF fs[file_path].fault = "read"
       THEN wPc' = "files" /\ errors' = errors \cup {<<"read", file_path>>}
       ELSE wPc' = "hash" /\ errors' = errors
    /\ UNCHANGED <<envVars, result, handleVars, tPc, dir_queue, dir, entries, found_files,
                   subdirs, file_path, consumerVars, pushed, stores, listed, signals>>

\* faulty variant: the worker does not wait for the hash of a file when
\* another file is left, and turns to that file
file_hash_detached ==
    /\ wPc = "hash"
    /\ IF found_files # <<>>
       THEN /\ file_path' = Head(found_files)
            /\ found_files' = Tail(found_files)
            /\ wPc' = "acquire_file"
            /\ errors' = errors
       ELSE /\ IF fs[file_path].fault = "hash"
               THEN wPc' = "files" /\ errors' = errors \cup {<<"hash", file_path>>}
               ELSE wPc' = "push" /\ errors' = errors
            /\ UNCHANGED <<found_files, file_path>>
    /\ UNCHANGED <<envVars, result, handleVars, tPc, dir_queue, semaphore, dir, entries,
                   subdirs, consumerVars, pushed, stores, listed, signals>>

\* process_file: spawn_blocking(compute_sha256).await
file_hash ==
    /\ wPc = "hash"
    /\ IF fs[file_path].fault = "hash"
       THEN wPc' = "files" /\ errors' = errors \cup {<<"hash", file_path>>}
       ELSE wPc' = "push" /\ errors' = errors
    /\ UNCHANGED <<envVars, result, handleVars, tPc, dir_queue, semaphore, dir, entries,
                   found_files, subdirs, file_path, consumerVars, pushed, stores, listed,
                   signals>>

\* queue.push(file_info)
worker_push ==
    /\ wPc = "push"
    /\ LET info == FileInfo(file_path, strip_prefix(file_path, Root).rel)
       IN  /\ queue' = Append(queue, info)
           /\ pushed' = Append(pushed, info)
    /\ wPc' = "notify"
    /\ UNCHANGED <<envVars, result, notify, is_completed, tPc, dir_queue, semaphore, dir,
                   entries, found_files, subdirs, file_path, consumerVars, stores, listed, errors,
                   signals>>

\* faulty variant: no signal after the push
worker_notify_skipped ==
    /\ wPc = "notify"
    /\ wPc' = "files"
    /\ UNCHANGED <<envVars, result, handleVars, tPc, dir_queue, semaphore, dir,
                   entries, found_files, subdirs, file_path, consumerVars, histVars>>

\* notify.notify_one()
worker_notify ==
    /\ wPc = "notify"
    /\ notify' = notify_one(notify)
    /\ signals' = signals + 1
    /\ wPc' = "files"
    /\ UNCHANGED <<envVars, result, queue, is_completed, tPc, dir_queue, semaphore, dir,
                   entries, found_files, subdirs, file_path, consumerVars, pushed, stores, listed,
                   errors>>

Producer ==
    \/ scan_directory_recursive
    \/ task_start
    \/ task_join
    \/ store_completed
    \/ final_notify
    \/ worker_pop
    \/ dir_acquire
    \/ dir_read
    \/ dir_next_entry
    \/ dir_next_entry_err
    \/ worker_next_file
    \/ file_acquire
    \/ file_read
    \/ file_hash
    \/ worker_push
    \/ worker_notify

(***************************************************************************)
(* The consumer of the module documentation.                               *)
(***************************************************************************)
producerVars == <<envVars, result, is_completed, tPc, workerVars, histVars>>

\* the consumer has the handle once scan_directory_recursive returned
consumer_start(c) ==
    /\ cPc[c] = "start"
    /\ result = "Ok"
    /\ cPc' = [cPc EXCEPT ![c] = "loop"]
    /\ UNCHANGED <<producerVars, queue, notify, mode, popped>>

\* faulty variant: the stored permit survives the wait
consumer_take_permit_kept(c) ==
    /\ cPc[c] = "loop"
    /\ notify.permit
    /\ cPc' = [cPc EXCEPT ![c] = "drain"]
    /\ UNCHANGED <<producerVars, queue, notify, mode, popped>>

\* handle.notify.notified() completes at once: a permit is stored
consumer_take_permit(c) ==
    /\ cPc[c] = "loop"
    /\ notify.permit
    /\ notify' = [notify EXCEPT !.permit = FALSE]
    /\ cPc' = [cPc EXCEPT ![c] = "drain"]
    /\ UNCHANGED <<producerVars, queue, mode, popped>>

\* handle.notify.notified() is pending: the consumer waits
consumer_park(c) ==
    /\ cPc[c] = "loop"
    /\ ~notify.permit
    /\ notify' = [notify EXCEPT !.waiters = Append(@, c)]
    /\ cPc' = [cPc EXCEPT ![c] = "parked"]
    /\ UNCHANGED <<producerVars, queue, mode, popped>>

\* a notify_one was delivered to the waiting consumer
consumer_wake(c) ==
    /\ cPc[c] = "parked"
    /\ c \in notify.notified
    /\ notify' = [notify EXCEPT !.notified = @ \ {c}]
    /\ cPc' = [cPc EXCEPT ![c] = "drain"]
    /\ UNCHANGED <<producerVars, queue, mode, popped>>

\* the arm of select! that polls is_completed completes: break
consumer_break(c) ==
    /\ mode[c] = "select"
    /\ cPc[c] \in {"loop", "parked"}
    /\ is_completed
    /\ notify' = IF cPc[c] = "parked" THEN DropNotified(notify, c) ELSE notify
    /\ cPc' = [cPc EXCEPT ![c] = "final"]
    /\ UNCHANGED <<producerVars, queue, mode, popped>>

\* while let Some(file_info) = handle.queue.pop(), in the loop and after it
consumer_pop(c) ==
    /\ cPc[c] \in {"drain", "final"}
    /\ queue # <<>>
    /\ popped' = [popped EXCEPT ![c] = Append(@, Head(queue))]
    /\ queue' = Tail(queue)
    /\ UNCHANGED <<producerVars, notify, cPc, mode>>

\* the queue is empty: back to waiting, or the consumer is finished
consumer_drained(c) ==
    /\ cPc[c] \in {"drain", "final"}
    /\ queue = <<>>
    /\ cPc' = [cPc EXCEPT ![c] =
                 IF cPc[c] = "final" THEN "done"
                 ELSE IF mode[c] = "await" /\ is_completed THEN "final"
                 ELSE "loop"]
    /\ UNCHANGED <<producerVars, queue, notify, mode, popped>>

Consumer(c) ==
    \/ consumer_start(c)
    \/ consumer_take_permit(c)
    \/ consumer_park(c)
    \/ consumer_wake(c)
    \/ consumer_break(c)
    \/ consumer_pop(c)
    \/ consumer_drained(c)

Next ==
    \/ Producer
    \/ \E c \in DOMAIN cPc : Consumer(c)

\* the scan alone: nobody reads the handle
Init == InitWith({}, {"select"})

Spec == Init /\ [][Producer]_vars

\* the scan and the one consumer of the module documentation
InitOne == InitWith({1}, {"select"})

SpecOne == InitOne /\ [][Next]_vars

(***************************************************************************)
(* Scheduling: the runtime runs every spawned task and every I/O           *)
(* operation returns, so each process that can take a step takes one.      *)
(***************************************************************************)
Fairness ==
    /\ WF_vars(Producer)
    /\ \A c \in {1, 2} : WF_vars(c \in DOMAIN cPc /\ Consumer(c))

FairSpec == Spec /\ Fairness

FairOne == SpecOne /\ Fairness

(***************************************************************************)
(* A handle shared by one or by two consumers, each waiting either as the  *)
(* documented loop does (select! over notified() and the polled flag) or   *)
(* on notified() alone, checking the flag after every drain.               *)
(* The entries of a shared scan lie directly below the root and are         *)
(* readable; the root itself may be missing or fail to list.               *)
(* The storage type gives both sizes of the semaphore.                     *)
(***************************************************************************)
\* at most this many entries exist below the root of a shared scan
MaxSharedEntries == 1

InitShared ==
    /\ \E cs \in {{1}, {1, 2}} : InitWith(cs, {"select", "await"})
    /\ \A n \in Universe : fs[n].kind # "absent" => Parent(n) = Root /\ fs[n].fault = "none"
    /\ storage_type \in {<<"SSD">>, <<"HDD">>}
    /\ Cardinality({ n \in Universe : fs[n].kind # "absent" }) <= MaxSharedEntries

SpecShared == InitShared /\ [][Next]_vars

FairShared == SpecShared /\ Fairness

(***************************************************************************)
(* What the claims speak about.                                            *)
(***************************************************************************)
\* every listing, entry-type query, read and hash of the tree succeeds
NoFaults ==
    /\ fs[Root].kind = "dir"
    /\ \A n \in Nodes : fs[n].fault = "none"

\* the files of the tree with a recognized extension
MatchingFiles == { n \in Universe : fs[n].kind = "file" /\ fs[n].ext = <<"B", "m", "s">> }

\* the number of listings and reads in flight: each holds one permit
InFlight == IF wPc \in {"read_dir", "read"} THEN 1 ELSE 0

\* the record of a file
RecordOf(n) == FileInfo(n, SubSeq(n, Len(Root) + 1, Len(n)))

\* the ancestors of a path below the root, the root included
Ancestors(n) == { a \in Nodes : IsPrefix(a, n) /\ a # n }

\* a matching file nothing hides: its own read and hash succeed and every
\* directory above it lists completely
Healthy(n) ==
    /\ n \in MatchingFiles
    /\ fs[n].fault = "none"
    /\ \A a \in Ancestors(n) : fs[a].kind = "dir" /\ fs[a].fault = "none"

(***************************************************************************)
(* C1                                                                      *)
(***************************************************************************)
\* C1: once is_completed is true no record is pushed any more, and a consumer
\* that saw the flag true and drained the queue to empty has every record
C1_PushBeforeFlag ==
    /\ [][is_completed => pushed' = pushed]_vars
    /\ [](\A c \in DOMAIN cPc : cPc[c] = "done" => popped[c] = pushed)

C1_Witness ==
    /\ is_completed
    /\ Len(pushed) = 2
    /\ cPc[1] = "done"
    /\ popped[1] = pushed

(***************************************************************************)
(* C2                                                                      *)
(***************************************************************************)
\* C2: in a tree where every operation succeeds and N files have a recognized
\* extension, a started scan eventually stores is_completed = true, and when
\* it is true exactly N records have been pushed
C2_CompletesWithNRecords ==
    /\ (NoFaults /\ result = "Ok") ~> is_completed
    /\ [](NoFaults /\ is_completed => Len(pushed) = Cardinality(MatchingFiles))

C2_Witness ==
    /\ NoFaults
    /\ is_completed
    /\ Cardinality(MatchingFiles) = 1
    /\ Len(pushed) = 1
    /\ Len(pushed[1].absolute_path) = 3
    /\ \E n \in Universe : fs[n].kind = "file" /\ fs[n].ext = <<"t", "x", "t">>

(***************************************************************************)
(* C3                                                                      *)
(***************************************************************************)
\* C3: is_completed is false when the handle is created, is stored true at
\* most once, only by the background task, and never becomes false again
C3_FlagMonotonic ==
    /\ [](stores <= 1 /\ (stores = 0 => ~is_completed))
    /\ [][is_completed => is_completed']_vars
    /\ [][is_completed' # is_completed => tPc = "store" /\ stores' = stores + 1]_vars

C3_Witness ==
    /\ is_completed
    /\ stores = 1
    /\ tPc = "done"

(***************************************************************************)
(* C4                                                                      *)
(***************************************************************************)
\* C4: a single consumer following the documented protocol terminates for
\* every interleaving and has then popped every record exactly once, with
\* none left in the queue
C4_ConsumerTerminates ==
    /\ (result = "Ok") ~> (cPc[1] = "done")
    /\ [](cPc[1] = "done" => popped[1] = pushed /\ queue = <<>>)

\* the same, for the scans in which no entry-type query fails
C4_UnlessWorkerPanics ==
    /\ (result = "Ok") ~> (cPc[1] = "done" \/ wPc = "panicked")
    /\ [](cPc[1] = "done" => popped[1] = pushed /\ queue = <<>>)

(***************************************************************************)
(* C5                                                                      *)
(***************************************************************************)
\* consumer c of the handle waits on the wake-up signal after completion
Parked(c) == c \in DOMAIN cPc /\ cPc[c] = "parked"

ParkedAfterCompletion(c) == is_completed /\ Parked(c)

\* C5 as claimed: the flag is stored before the one final notify_one, and
\* every consumer of a handle shared by one or several consumers that waits
\* on the signal at or after completion is eventually woken
C5_EveryConsumerWoken ==
    /\ [](tPc \in {"final_notify", "done"} => is_completed)
    /\ [][tPc = "final_notify" /\ tPc' = "done" => signals' = signals + 1]_vars
    /\ \A c \in {1, 2} : [](ParkedAfterCompletion(c) => <>(~Parked(c)))

\* C5 as amended: the same for the only consumer of a handle and for a
\* consumer that also polls the flag; of several consumers waiting on the
\* signal alone the final notify_one wakes one
C5_FinalWakeup ==
    /\ [](tPc \in {"final_notify", "done"} => is_completed)
    /\ [][tPc = "final_notify" /\ tPc' = "done" => signals' = signals + 1]_vars
    /\ \A c \in {1, 2} :
         [](ParkedAfterCompletion(c) /\ (DOMAIN cPc = {c} \/ mode[c] = "select")
              => <>(~Parked(c)))

\* the only consumer waits on the signal alone and is woken by the final
\* notify_one (no record was pushed, so no other signal was fired)
C5_Witness ==
    /\ DOMAIN cPc = {1}
    /\ mode[1] = "await"
    /\ is_completed
    /\ tPc = "done"
    /\ signals = 1
    /\ cPc[1] = "parked"
    /\ 1 \in notify.notified

(***************************************************************************)
(* C6                                                                      *)
(***************************************************************************)
\* the budget the storage type stands for
Budget == IF storage_type = <<"SSD">> THEN 16 ELSE 1

\* C6: the listings and reads in flight never exceed the budget, 16 for SSD
\* and 1 for HDD, Unknown and Failed, and the semaphore is a pool of that size
C6_ConcurrencyBudget ==
    /\ InFlight <= Budget
    /\ tPc \notin {"unspawned", "spawned"} => semaphore + InFlight = Budget

C6_Witness ==
    /\ storage_type = <<"Unknown", 0>>
    /\ wPc = "read"
    /\ semaphore = 0

(***************************************************************************)
(* C7                                                                      *)
(***************************************************************************)
\* the directories whose read_dir has failed
ListFailed == { d \in Nodes : <<"list", d>> \in errors }

Below(d) == { n \in Universe : IsPrefix(d, n) /\ n # d }

\* C7: a directory whose listing failed contributes no record and no pending
\* subdirectory, the handle shows no error, every matching file outside the
\* subtree still yields its record, and the scan reaches is_completed = true
C7_UnlistableDirectory ==
    /\ [](\A d \in ListFailed : \A n \in Below(d) :
            /\ \A i \in 1..Len(pushed) : pushed[i].absolute_path # n
            /\ \A i \in 1..Len(dir_queue) : dir_queue[i] # n)
    /\ [](result \in {"none", "Ok"})
    /\ [](is_completed => \A n \in Universe :
            Healthy(n) => \E i \in 1..Len(pushed) : pushed[i] = RecordOf(n))
    /\ (ListFailed # {}) ~> is_completed

\* the same, for the scans in which no entry-type query fails
C7_UnlessWorkerPanics ==
    /\ [](\A d \in ListFailed : \A n \in Below(d) :
            /\ \A i \in 1..Len(pushed) : pushed[i].absolute_path # n
            /\ \A i \in 1..Len(dir_queue) : dir_queue[i] # n)
    /\ [](result \in {"none", "Ok"})
    /\ [](is_completed => \A n \in Universe :
            Healthy(n) => \E i \in 1..Len(pushed) : pushed[i] = RecordOf(n))
    /\ (ListFailed # {}) ~> (is_completed \/ wPc = "panicked")

(***************************************************************************)
(* C8                                                                      *)
(***************************************************************************)
\* the files for which process_file returned Err
FileFailed == { n \in Universe : \E k \in {"prefix", "read", "hash"} : <<k, n>> \in errors }

\* C8: a file whose process_file failed gets no record and no signal, the
\* other files of its directory and the subdirectories are still processed,
\* and the scan reaches is_completed = true
C8_PerFileFailure ==
    /\ [](\A n \in FileFailed : \A i \in 1..Len(pushed) : pushed[i].absolute_path # n)
    /\ [](signals = Len(pushed) + (IF tPc = "done" THEN 1 ELSE 0)
            \/ (wPc = "notify" /\ signals + 1 = Len(pushed)))
    /\ [](is_completed => \A n \in Universe :
            Healthy(n) => \E i \in 1..Len(pushed) : pushed[i] = RecordOf(n))
    /\ (FileFailed # {}) ~> is_completed

\* the same, for the scans in which no entry-type query fails
C8_UnlessWorkerPanics ==
    /\ [](\A n \in FileFailed : \A i \in 1..Len(pushed) : pushed[i].absolute_path # n)
    /\ [](signals = Len(pushed) + (IF tPc = "done" THEN 1 ELSE 0)
            \/ (wPc = "notify" /\ signals + 1 = Len(pushed)))
    /\ [](is_completed => \A n \in Universe :
            Healthy(n) => \E i \in 1..Len(pushed) : pushed[i] = RecordOf(n))
    /\ (FileFailed # {}) ~> (is_completed \/ wPc = "panicked")

(***************************************************************************)
(* C9                                                                      *)
(***************************************************************************)
\* the entries whose file_type query has failed
TypeFailed == { n \in Universe : <<"type", n>> \in errors }

\* C9: an entry whose type cannot be determined is ignored alone: the scan
\* goes on, classifies the other entries and reaches is_completed = true
C9_UndeterminableEntryIgnored ==
    /\ [](TypeFailed # {} => wPc # "panicked")
    /\ (TypeFailed # {}) ~> is_completed

(***************************************************************************)
(* C10                                                                     *)
(***************************************************************************)
\* the root does not exist or cannot be listed
RootUnlistable == fs[Root].kind = "absent" \/ fs[Root].fault = "list"

\* C10: scan_directory_recursive returns Ok(handle) before any listing or read
\* has started, whatever the root; for a root that is missing or cannot be
\* listed the scan completes with no record pushed
C10_StartNonBlocking ==
    /\ [][result = "none" /\ result' # "none" =>
            /\ result' = "Ok"
            /\ wPc' = "unspawned"
            /\ listed' = <<>>
            /\ errors' = {}]_vars
    /\ [](result \in {"none", "Ok"})
    /\ (RootUnlistable /\ result = "Ok") ~> is_completed
    /\ [](RootUnlistable /\ is_completed => pushed = <<>> /\ listed = <<Root>>)

C10_Witness ==
    /\ fs[Root].kind = "absent"
    /\ result = "Ok"
    /\ is_completed
    /\ pushed = <<>>
    /\ tPc = "done"

(***************************************************************************)
(* detect_storage_type, studied on its own: the target path, what          *)
(* canonicalize makes of it, and the list of mounted volumes are inputs.   *)
(***************************************************************************)
\* at most this many mounted volumes
MaxDisks == 2

\* absolute paths as component sequences, the root directory first
DetectPaths == { <<"/">>, <<"/", "a">>, <<"/", "a", "b">>, <<"/", "c">> }

\* what a path resolves to: with link, "/c" is a symbolic link to "/a"
Resolve(link, p) ==
    IF link /\ Len(p) >= 2 /\ p[2] = "c"
    THEN <<"/", "a">> \o SubSeq(p, 3, Len(p))
    ELSE p

\* canonicalize: the resolved path, or an error
canonicalize(link, p, fails) ==
    IF fails THEN [ok |-> FALSE, path |-> <<>>] ELSE [ok |-> TRUE, path |-> Resolve(link, p)]

DiskKinds == { <<"HDD">>, <<"SSD">>, <<"Unknown", 0>> }

\* a mounted volume: its mount point, whether canonicalizing it fails, its kind
Disk == [mount_point : DetectPaths, fails : BOOLEAN, kind : DiskKinds]

DiskLists == UNION { [1..n -> Disk] : n \in 0..MaxDisks }

DetectCalls ==
    [fn : {"detect_storage_type"}, path : DetectPaths, fails : BOOLEAN,
     link : BOOLEAN, disks : DiskLists]

\* canonicalize(path).unwrap_or_else(|_| path.to_path_buf())
canonical_path(c) ==
    LET r == canonicalize(c.link, c.path, c.fails)
    IN  IF r.ok THEN r.path ELSE c.path

\* d.mount_point().canonicalize().unwrap_or_else(|_| path.to_path_buf()):
\* the fallback is the target path given to detect_storage_type
MountPrefix(c, d) ==
    LET r == canonicalize(c.link, d.mount_point, d.fails)
    IN  IF r.ok THEN r.path ELSE c.path

\* the volumes the filter keeps, in the order of the list
Kept(c) == SelectSeq(c.disks, LAMBDA d : IsPrefix(MountPrefix(c, d), canonical_path(c)))

\* Iterator::max_by_key over components().count() of the mount point:
\* the last of the elements with the greatest key
max_by_key(s) ==
    CHOOSE i \in 1..Len(s) :
        /\ \A j \in 1..Len(s) : Len(s[j].mount_point) <= Len(s[i].mount_point)
        /\ \A j \in (i + 1)..Len(s) : Len(s[j].mount_point) < Len(s[i].mount_point)

StorageTypeOf(c) ==
    LET kept == Kept(c)
    IN  IF kept = <<>> THEN <<"Failed">> ELSE kept[max_by_key(kept)].kind

\* no scan is running while a function is studied on its own
NoScan ==
    /\ fs = [n \in Nodes |-> Absent]
    /\ storage_type = <<"Failed">>
    /\ result = "none"
    /\ queue = <<>>
    /\ notify = NewNotify
    /\ is_completed = FALSE
    /\ tPc = "unspawned"
    /\ dir_queue = <<>>
    /\ semaphore = 0
    /\ wPc = "unspawned"
    /\ dir = NoPath
    /\ entries = {}
    /\ found_files = <<>>
    /\ subdirs = <<>>
    /\ file_path = NoPath
    /\ cPc = <<>>
    /\ mode = <<>>
    /\ popped = <<>>
    /\ pushed = <<>>
    /\ stores = 0
    /\ listed = <<>>
    /\ errors = {}
    /\ signals = 0

InitDetect ==
    /\ call \in DetectCalls
    /\ ret = <<>>
    /\ NoScan

detect_storage_type ==
    /\ call.fn = "detect_storage_type"
    /\ ret = <<>>
    /\ ret' = <<StorageTypeOf(call)>>
    /\ UNCHANGED <<fs, storage_type, call, result, handleVars, tPc, workerVars,
                   consumerVars, histVars>>

SpecDetect == InitDetect /\ [][detect_storage_type]_vars

\* the mount point a volume is compared by: canonical, or as mounted when
\* it cannot be canonicalized
MountPointOf(c, d) ==
    LET r == canonicalize(c.link, d.mount_point, d.fails)
    IN  IF r.ok THEN r.path ELSE d.mount_point

\* the volumes whose mount point is a path-prefix of the canonical target
Candidates(c) ==
    { i \in 1..Len(c.disks) : IsPrefix(MountPointOf(c, c.disks[i]), canonical_path(c)) }

\* the candidates with the most path components
Deepest(c) ==
    { i \in Candidates(c) :
        \A j \in Candidates(c) :
            Len(c.disks[j].mount_point) <= Len(c.disks[i].mount_point) }

Detected == call.fn = "detect_storage_type" /\ ret # <<>>

\* C11: detect_storage_type returns the kind of the volume with the most
\* path components among the volumes whose mount point is a path-prefix of
\* the canonical target, and Failed exactly when no mount point is a prefix.
C11_DeepestMount ==
    Detected =>
        IF Candidates(call) = {}
        THEN ret[1] = <<"Failed">>
        ELSE ret[1] \in { call.disks[i].kind : i \in Deepest(call) }

\* C11 holds of every call in which each mount point can be canonicalized
C11_UnlessMountUnresolved ==
    Detected /\ (\A i \in 1..Len(call.disks) : ~call.disks[i].fails) =>
        IF Candidates(call) = {}
        THEN ret[1] = <<"Failed">>
        ELSE ret[1] \in { call.disks[i].kind : i \in Deepest(call) }

\* C20: a volume whose mount point (canonical, or as mounted when it cannot
\* be canonicalized) is not a path-prefix of the canonical target is not
\* kept as a candidate and does not determine the returned storage type.
C20_NonPrefixMountIgnored ==
    Detected =>
        /\ \A i \in 1..Len(call.disks) :
              IsPrefix(MountPrefix(call, call.disks[i]), canonical_path(call))
                  => i \in Candidates(call)
        /\ Candidates(call) = {} => ret[1] = <<"Failed">>
        /\ Candidates(call) # {} => \E i \in Candidates(call) : ret[1] = call.disks[i].kind

(***************************************************************************)
(* The classification of one directory entry by process_directory,         *)
(* studied on its own: the entry's file name and whether it is a directory *)
(* are inputs.                                                             *)
(***************************************************************************)
\* the part of a file name before its last component has at most this many
\* characters
MaxStemLen == 2

\* the upper-case form of a lower-case letter
UpperChar(c) ==
    CASE c = "b" -> "B"
      [] c = "m" -> "M"
      [] c = "s" -> "S"
      [] c = "e" -> "E"
      [] c = "l" -> "L"
      [] c = "p" -> "P"
      [] c = "o" -> "O"
      [] c = "n" -> "N"
      [] c = "t" -> "T"
      [] c = "x" -> "X"
      [] OTHER -> c

\* every spelling of a lower-case extension in lower-case and upper-case letters
Spellings(t) ==
    { [i \in 1..Len(t) |-> IF i \in U THEN UpperChar(t[i]) ELSE t[i]] :
        U \in SUBSET (1..Len(t)) }

\* what follows the stem of a file name: nothing, or a dot and some letters
NameTails ==
    { <<>>, <<".">> } \cup
    { <<".">> \o s : s \in UNION { Spellings(t) :
        t \in TARGET_EXTS \cup { <<"b", "m", "s", "x">>, <<"t", "x", "t">>, <<"b", "m">> } } }

NameStems == UNION { [1..n -> { "s", "." }] : n \in 0..MaxStemLen }

\* read_dir returns neither "." nor ".."
IsEntryName(name) == name \notin { <<>>, <<".">>, <<".", ".">> }

EntryCalls ==
    { c \in [fn : {"process_directory"}, stem : NameStems, tail : NameTails, is_dir : BOOLEAN] :
        IsEntryName(c.stem \o c.tail) }

\* faulty variant: a leading dot starts an extension too
extension_of_hidden(name) ==
    LET dots == { i \in 1..Len(name) : name[i] = "." }
        last == CHOOSE i \in dots : \A j \in dots : j <= i
    IN  IF dots = {}
        THEN [some |-> FALSE, ext |-> NoExt]
        ELSE [some |-> TRUE, ext |-> SubSeq(name, last + 1, Len(name))]

\* Path::extension of the entry's path: what follows the last dot of the
\* file name, unless the name has no dot or only a leading one
extension(name) ==
    LET dots == { i \in 1..Len(name) : name[i] = "." }
        last == CHOOSE i \in dots : \A j \in dots : j <= i
    IN  IF dots = {} \/ name = <<".", ".">>
        THEN [some |-> FALSE, ext |-> NoExt]
        ELSE IF SubSeq(name, 1, last - 1) = <<>>
             THEN [some |-> FALSE, ext |-> NoExt]
             ELSE [some |-> TRUE, ext |-> SubSeq(name, last + 1, Len(name))]

\* where process_directory puts an entry
Classify(name, is_dir) ==
    IF is_dir
    THEN "subdirs"
    ELSE IF extension(name).some /\ IsTargetExt(extension(name).ext)
         THEN "found_files"
         ELSE "skipped"

InitEntry ==
    /\ call \in EntryCalls
    /\ ret = <<>>
    /\ NoScan

classify_entry ==
    /\ call.fn = "process_directory"
    /\ ret = <<>>
    /\ ret' = <<Classify(call.stem \o call.tail, call.is_dir)>>
    /\ UNCHANGED <<fs, storage_type, call, result, handleVars, tPc, workerVars,
                   consumerVars, histVars>>

SpecEntry == InitEntry /\ [][classify_entry]_vars

\* the five extensions in every letter case
Recognized ==
    { <<b, m, c>> : b \in {"b", "B"}, m \in {"m", "M"}, c \in {"s", "S", "e", "E", "l", "L"} }
    \cup
    { <<p, m, c>> : p \in {"p", "P"}, m \in {"m", "M"}, c \in {"s", "S"} }
    \cup
    { <<b, m, c, o, n>> : b \in {"b", "B"}, m \in {"m", "M"}, c \in {"s", "S"},
                          o \in {"o", "O"}, n \in {"n", "N"} }

Classified == call.fn = "process_directory" /\ ret # <<>>

\* the entry's name is a non-empty stem, a dot, and a recognized extension
HasRecognizedExt(c) ==
    /\ c.stem # <<>>
    /\ c.tail # <<>>
    /\ Tail(c.tail) \in Recognized

\* C12: a non-directory entry is selected as a target file if and only if
\* its name has an extension that is, letter case aside, one of bms, bme,
\* bml, pms, bmson; an entry with a longer extension or with no extension
\* is never selected.
C12_ExtensionMatching ==
    Classified /\ ~call.is_dir =>
        /\ ret[1] = "found_files" <=> HasRecognizedExt(call)
        /\ call.tail = <<>> => ret[1] = "skipped"
        /\ call.tail \in { <<".">> \o s : s \in Spellings(<<"b", "m", "s", "x">>) }
              => ret[1] = "skipped"

C12_Witness ==
    /\ Classified
    /\ ~call.is_dir
    /\ call.stem = <<"s">>
    /\ call.tail = <<".", "B", "m", "S", "O", "n">>
    /\ ret[1] = "found_files"

(***************************************************************************)
(* process_file called on its own, with any root: the path, the root and   *)
(* the semaphore are arguments.  The file exists below the directories     *)
(* that lead to it; reading or hashing it may fail.                        *)
(***************************************************************************)
\* the roots process_file may be given
FileRoots == { <<0>>, <<0, 1>>, <<0, 2>>, <<1>> }

FileCalls == [fn : {"process_file"}, path : Universe, root : FileRoots]

\* the file system that holds the file of the call
FileSystemOf(path, fault) ==
    [n \in Nodes |->
        IF n = path THEN [kind |-> "file", ext |-> <<"B", "m", "s">>, fault |-> fault]
        ELSE IF IsPrefix(n, path) THEN [kind |-> "dir", ext |-> NoExt, fault |-> "none"]
        ELSE Absent]

InitFile ==
    /\ call \in FileCalls
    /\ ret = <<>>
    /\ \E fault \in {"none", "read", "hash"} : fs = FileSystemOf(call.path, fault)
    /\ storage_type \in StorageTypes
    /\ semaphore = SemaphorePermits(storage_type)
    /\ wPc = "process_file"
    /\ result = "none"
    /\ queue = <<>>
    /\ notify = NewNotify
    /\ is_completed = FALSE
    /\ tPc = "unspawned"
    /\ dir_queue = <<>>
    /\ dir = NoPath
    /\ entries = {}
    /\ found_files = <<>>
    /\ subdirs = <<>>
    /\ file_path = NoPath
    /\ cPc = <<>>
    /\ mode = <<>>
    /\ popped = <<>>
    /\ pushed = <<>>
    /\ stores = 0
    /\ listed = <<>>
    /\ errors = {}
    /\ signals = 0

FileErr == [ok |-> FALSE, info |-> <<>>]

\* path.strip_prefix(root).map_err(..)?
process_file_strip_prefix ==
    /\ wPc = "process_file"
    /\ IF strip_prefix(call.path, call.root).ok
       THEN /\ file_path' = call.path
            /\ wPc' = "acquire_file"
            /\ UNCHANGED <<ret, errors>>
       ELSE /\ ret' = <<FileErr>>
            /\ errors' = errors \cup {<<"prefix", call.path>>}
            /\ wPc' = "returned"
            /\ UNCHANGED file_path
    /\ UNCHANGED <<fs, storage_type, call, result, handleVars, tPc, dir_queue, semaphore, dir,
                   entries, found_files, subdirs, consumerVars, pushed, stores, listed, signals>>

\* the ? after fs::read and after the hashing task
process_file_err ==
    /\ wPc = "files"
    /\ ret' = <<FileErr>>
    /\ wPc' = "returned"
    /\ UNCHANGED <<fs, storage_type, call, result, handleVars, tPc, dir_queue, semaphore, dir,
                   entries, found_files, subdirs, file_path, consumerVars, histVars>>

\* Ok(FileInfo { .. })
process_file_ok ==
    /\ wPc = "push"
    /\ ret' = <<[ok |-> TRUE,
                 info |-> FileInfo(file_path, strip_prefix(file_path, call.root).rel)]>>
    /\ wPc' = "returned"
    /\ UNCHANGED <<fs, storage_type, call, result, handleVars, tPc, dir_queue, semaphore, dir,
                   entries, found_files, subdirs, file_path, consumerVars, histVars>>

process_file ==
    \/ process_file_strip_prefix
    \/ file_acquire
    \/ file_read
    \/ file_hash
    \/ process_file_err
    \/ process_file_ok

\* a scan, or one call of process_file with arguments of any kind
InitPaths == Init \/ InitFile

NextPaths ==
    \/ call.fn = "scan_directory_recursive" /\ Producer
    \/ call.fn = "process_file" /\ process_file

SpecPaths == InitPaths /\ [][NextPaths]_vars

\* the paths the worker has dispatched to process_file or will dispatch
Dispatched ==
    { found_files[i] : i \in 1..Len(found_files) } \cup
    (IF wPc \in {"acquire_file", "read", "hash", "push", "notify"} THEN {file_path} ELSE {})

\* C13: every pushed record has absolute_path = root joined with
\* relative_path; process_file returns an error, without acquiring a permit
\* or reading the file, when the path does not have root as a prefix; within
\* a scan every path on the pending-directory queue or dispatched to
\* process_file has root as a prefix.
C13_RelativePath ==
    /\ \A i \in 1..Len(pushed) :
          pushed[i].absolute_path = Join(Root, pushed[i].relative_path)
    /\ call.fn = "scan_directory_recursive" =>
          /\ \A i \in 1..Len(dir_queue) : IsPrefix(Root, dir_queue[i])
          /\ \A p \in Dispatched : IsPrefix(Root, p)
          /\ \A e \in errors : e[1] # "prefix"
    /\ call.fn = "process_file" /\ ~IsPrefix(call.root, call.path) =>
          /\ wPc \in {"process_file", "returned"}
          /\ semaphore = SemaphorePermits(storage_type)
          /\ \A e \in errors : e[1] \notin {"read", "hash"}
          /\ wPc = "returned" => ret = <<FileErr>>
    /\ call.fn = "process_file" /\ ret # <<>> /\ ret[1].ok =>
          ret[1].info.absolute_path = Join(call.root, ret[1].info.relative_path)

C13_Witness ==
    /\ call.fn = "process_file"
    /\ call.path = <<0, 1, 1>>
    /\ call.root = <<0, 2>>
    /\ ret = <<FileErr>>
    /\ semaphore = SemaphorePermits(storage_type)

(***************************************************************************)
(* C14                                                                     *)
(***************************************************************************)
\* the permits taken from the semaphore of the scan
HeldPermits == SemaphorePermits(storage_type) - semaphore

\* the background task has created the semaphore
SemaphoreCreated == tPc \notin {"unspawned", "spawned"}

\* C14: the number of held permits equals the number of read_dir and read
\* calls in flight; no permit is held while the entries of a listing are
\* iterated, while a hash is computed, or after a listing or read returned
\* an error, and when is_completed is true all permits are available.
C14_PermitsAroundIo ==
    SemaphoreCreated =>
        /\ HeldPermits = InFlight
        /\ wPc \in {"entries", "hash", "files", "push", "notify"} => HeldPermits = 0
        /\ is_completed => semaphore = SemaphorePermits(storage_type)

C14_Witness ==
    /\ storage_type = <<"SSD">>
    /\ is_completed
    /\ \E e \in errors : e[1] = "read"
    /\ \E e \in errors : e[1] = "list"
    /\ semaphore = 16

(***************************************************************************)
(* C15                                                                     *)
(***************************************************************************)
\* no directory is pending and no listing, read or hash is in flight
Quiescent ==
    /\ dir_queue = <<>>
    /\ wPc \notin {"acquire_dir", "read_dir", "entries", "files", "acquire_file",
                   "read", "hash", "push", "notify"}

\* C15: whenever is_completed is true the pending-directory queue is empty
\* and no listing, read or hash is in flight; the flag is not stored while
\* the queue is non-empty or such an operation is in flight.
C15_CompletionImpliesQuiescence ==
    /\ [](is_completed => Quiescent /\ wPc = "returned")
    /\ [][~is_completed /\ is_completed' => Quiescent /\ Quiescent']_vars

C15_Witness ==
    /\ is_completed
    /\ Len(listed) = 3
    /\ Len(pushed) = 1
    /\ dir_queue = <<>>
    /\ wPc = "returned"

(***************************************************************************)
(* C16                                                                     *)
(***************************************************************************)
NoDuplicates(s) == \A i, j \in 1..Len(s) : i # j => s[i] # s[j]

PushedPaths == [i \in 1..Len(pushed) |-> pushed[i].absolute_path]

\* the files process_file has been called for and has returned for
Processed ==
    { pushed[i].absolute_path : i \in 1..Len(pushed) } \cup
    { e[2] : e \in { x \in errors : x[1] \in {"prefix", "read", "hash"} } }

\* C16: every directory is popped and listed at most once, every matching
\* file is passed to process_file at most once, no two records have the
\* same absolute path, and the records never outnumber the matching files.
C16_OneRecordPerFile ==
    /\ [](/\ NoDuplicates(listed)
          /\ NoDuplicates(PushedPaths)
          /\ Len(pushed) <= Cardinality(MatchingFiles))
    /\ [][Len(dir_queue') < Len(dir_queue) =>
             \A i \in 1..Len(listed) : listed[i] # Head(dir_queue)]_vars
    /\ [][Len(found_files') < Len(found_files) =>
             /\ Head(found_files) \notin Processed
             /\ Head(found_files) \in MatchingFiles
             /\ file_path = NoPath \/ file_path \in Processed]_vars

C16_Witness ==
    /\ is_completed
    /\ Len(pushed) = 2
    /\ Len(listed) = 2
    /\ Cardinality(MatchingFiles) = 2

(***************************************************************************)
(* C17                                                                     *)
(***************************************************************************)
\* the signals fired for records: all but the final wake-up
RecordSignals == signals - (IF tPc = "done" THEN 1 ELSE 0)

\* C17: the worker fires notify_one once after every push, before it turns
\* to the next file, so the record a signal was fired for is in the queue
\* or has been popped; when the task is done the signals fired are the
\* records pushed plus one.
C17_SignalFollowsPush ==
    /\ RecordSignals = Len(pushed) - (IF wPc = "notify" THEN 1 ELSE 0)
    /\ pushed = popped[1] \o queue
    /\ RecordSignals <= Len(popped[1]) + Len(queue)
    /\ tPc = "done" => signals = Len(pushed) + 1

C17_Witness ==
    /\ tPc = "done"
    /\ Len(pushed) = 2
    /\ signals = 3
    /\ Len(popped[1]) = 1
    /\ Len(queue) = 1

(***************************************************************************)
(* C18                                                                     *)
(***************************************************************************)
\* C18: a signal fired while no consumer waits stores one wake however many
\* were fired before; the wait that takes it leaves none, and a consumer
\* that waits again is woken by a new signal only.
C18_WakeupCoalescing ==
    /\ [][signals' = signals + 1 /\ notify.waiters = <<>> =>
             notify' = [notify EXCEPT !.permit = TRUE]]_vars
    /\ [][cPc[1] = "loop" /\ cPc'[1] = "drain" =>
             notify.permit /\ ~notify'.permit /\ notify'.notified = {}]_vars
    /\ [][cPc[1] = "parked" /\ cPc'[1] = "drain" => 1 \in notify.notified]_vars
    /\ [][1 \notin notify.notified /\ 1 \in notify'.notified =>
             signals' = signals + 1 /\ cPc[1] = "parked"]_vars
    /\ [](notify.permit => notify.waiters = <<>>)

\* the only wake-up of the consumer finds two records: every signal has
\* been fired and no wake is left
C18_Witness ==
    /\ tPc = "done"
    /\ signals = 3
    /\ cPc[1] = "drain"
    /\ popped[1] = <<>>
    /\ Len(queue) = 2
    /\ ~notify.permit
    /\ notify.notified = {}

(***************************************************************************)
(* C19                                                                     *)
(***************************************************************************)
\* the files whose read or hash is in flight
FileOpsInFlight == IF wPc \in {"read", "hash"} THEN {file_path} ELSE {}

\* the operations of two files are in flight together
Overlap == Cardinality(FileOpsInFlight) >= 2 \/ HeldPermits >= 2

\* C19: in a scan with the SSD storage type of a tree with two matching
\* files the read or hash of one file is in flight while the read or hash
\* of another file is in flight.
C19_FileOperationsOverlap ==
    (storage_type = <<"SSD">> /\ NoFaults /\ Cardinality(MatchingFiles) = 2) ~> Overlap

\* C19, as the code behaves: the worker turns to a file only after the
\* file before it has been read and hashed, and a scan never holds more
\* than one permit, whatever the storage type
C19_OneFileAtATime ==
    /\ [](SemaphoreCreated => HeldPermits <= 1)
    /\ [][file_path' # file_path => wPc = "files" /\ (file_path = NoPath \/ file_path \in Processed)]_vars

C19_Witness ==
    /\ storage_type = <<"SSD">>
    /\ wPc = "hash"
    /\ found_files # <<>>
    /\ semaphore = 16
    /\ FileOpsInFlight = {file_path}

====
